---- MODULE Spec2Model ----
(***************************************************************************)
(* A model of pygolf.py, the datagolf API client.                          *)
(*                                                                         *)
(* A Python string is a sequence of atoms.  Where the code looks inside a  *)
(* string (regular expressions, strip, split) every atom is one character; *)
(* elsewhere a run of characters the code never looks inside is one atom   *)
(* ("feeds.datagolf.com").  None and NaN are reserved one-atom strings     *)
(* that no input alphabet contains.  A table (DataFrame) is a record       *)
(* [cols, rows]: the column names in order and, per row, the cell values   *)
(* in column order.                                                        *)
(***************************************************************************)
EXTENDS Integers, Sequences, FiniteSets, TLC

VARIABLES
    api_key,    \* self.api_key
    base_url,   \* self.base_url
    call,       \* the public operation last called, with its arguments
    request,    \* the url and the query string of the GET of that call
    gets,       \* the number of GETs issued by that call
    response,   \* what the upstream answered to that GET
    result,     \* what the call gave back to its caller: a table or an error
    prev        \* call, request, response and result of the call before

vars == <<api_key, base_url, call, request, gets, response, result, prev>>

---------------------------------------------------------------------------
(* Bounds of the input domains.                                            *)

MaxNameLen == 7
MaxLocLen == 6
MaxPrefixLen == 3
MaxRecords == 2
MaxCsvLen == 6

---------------------------------------------------------------------------
(* Python values.                                                          *)

None == <<"<None>">>
NaN == <<"<NaN>">>

Upper == {"A", "B", "C", "D", "E", "F", "G", "H", "I", "J", "K", "L", "M",
          "N", "O", "P", "Q", "R", "S", "T", "U", "V", "W", "X", "Y", "Z"}
Lower == {"a", "b", "c", "d", "e", "f", "g", "h", "i", "j", "k", "l", "m",
          "n", "o", "p", "q", "r", "s", "t", "u", "v", "w", "x", "y", "z"}
Digits == {"0", "1", "2", "3", "4", "5", "6", "7", "8", "9"}
Whitespace == {" "}
WordChars == Upper \cup Lower \cup Digits \cup {"_"}

StringsUpTo(alphabet, n) == UNION {[1..k -> alphabet] : k \in 0..n}

AllIn(s, a, b, chars) == \A x \in a..b : s[x] \in chars
NoneIn(s, a, b, chars) == \A x \in a..b : s[x] \notin chars

RECURSIVE LStrip(_, _)
LStrip(s, chars) ==
    IF s # <<>> /\ Head(s) \in chars THEN LStrip(Tail(s), chars) ELSE s

RECURSIVE RStrip(_, _)
RStrip(s, chars) ==
    IF s # <<>> /\ s[Len(s)] \in chars
    THEN RStrip(SubSeq(s, 1, Len(s) - 1), chars)
    ELSE s

\* str.strip(chars)
Strip(s, chars) == RStrip(LStrip(s, chars), chars)

\* Series.str.strip(): a missing value stays missing
str_strip(v) == IF v = NaN THEN NaN ELSE Strip(v, Whitespace)

\* Series.str.replace(old, ''), old a single character
str_remove(v, old) ==
    IF v = NaN THEN NaN ELSE SelectSeq(v, LAMBDA c : c # old)

\* fillna leaving the missing value as it is
fillna_skipped(v, d) == v

\* Series.fillna(d) on one value
fillna(v, d) == IF v = NaN THEN d ELSE v

DigitOf(d) == <<"0", "1", "2", "3", "4", "5", "6", "7", "8", "9">>[d + 1]

\* str(n), n a natural number
RECURSIVE IntToStr(_)
IntToStr(n) ==
    IF n < 10 THEN <<DigitOf(n)>> ELSE IntToStr(n \div 10) \o <<DigitOf(n % 10)>>

---------------------------------------------------------------------------
(* Tables.                                                                 *)

EmptyTable == [cols |-> <<>>, rows |-> <<>>]

HasCol(t, c) == \E i \in DOMAIN t.cols : t.cols[i] = c

ColIndex(t, c) ==
    CHOOSE i \in DOMAIN t.cols :
        t.cols[i] = c /\ \A j \in 1..(i - 1) : t.cols[j] # c

\* df[c], as the sequence of its values
Column(t, c) == [r \in DOMAIN t.rows |-> t.rows[r][ColIndex(t, c)]]

\* df[c] = vals: replaces column c in place, or appends it as the last column
SetColumn(t, c, vals) ==
    IF HasCol(t, c)
    THEN [t EXCEPT !.rows =
            [r \in DOMAIN t.rows |->
                [t.rows[r] EXCEPT ![ColIndex(t, c)] = vals[r]]]]
    ELSE [cols |-> Append(t.cols, c),
          rows |-> [r \in DOMAIN t.rows |-> Append(t.rows[r], vals[r])]]

KeepIdx(t, cs) == {i \in DOMAIN t.cols : t.cols[i] \notin cs}

RECURSIVE PickIdx(_, _, _)
PickIdx(s, idx, i) ==
    IF i > Len(s) THEN <<>>
    ELSE (IF i \in idx THEN <<s[i]>> ELSE <<>>) \o PickIdx(s, idx, i + 1)

\* df.drop(cs, axis=1), every name of cs being a column of df
DropCols(t, cs) ==
    [cols |-> PickIdx(t.cols, KeepIdx(t, cs), 1),
     rows |-> [r \in DOMAIN t.rows |-> PickIdx(t.rows[r], KeepIdx(t, cs), 1)]]

\* df[names], every name being a column of df
SelectCols(t, names) ==
    [cols |-> names,
     rows |-> [r \in DOMAIN t.rows |->
                 [i \in DOMAIN names |-> t.rows[r][ColIndex(t, names[i])]]]]

---------------------------------------------------------------------------
(* What a call gives back to its caller.                                   *)

Returned(t) == [kind |-> "table", error |-> "", msg |-> <<>>, table |-> t]
Raised(e, m) == [kind |-> "error", error |-> e, msg |-> m, table |-> EmptyTable]
NoResult == [kind |-> "none", error |-> "", msg |-> <<>>, table |-> EmptyTable]

---------------------------------------------------------------------------
(* _parse_name                                                             *)

new_cols == <<"last_name", "suffix", "first_name">>

\* The ways pat = ^([^,]+),\s+([A-Za-z.]*,)?([^,]*)$ matches the whole of s:
\* group 1 is s[1..i], the comma is s[i+1], the whitespace is s[i+2..j],
\* group 2 is s[j+1..k] ending in the comma s[k] (k = 0: group 2 took no
\* part), group 3 is the rest.
PatMatches(s) ==
    LET n == Len(s) IN
    UNION { UNION { { <<i, j, k>> : k \in
                        {k \in 0..n :
                            IF k = 0
                            THEN NoneIn(s, j + 1, n, {","})
                            ELSE /\ k > j
                                 /\ s[k] = ","
                                 /\ AllIn(s, j + 1, k - 1, Upper \cup Lower \cup {"."})
                                 /\ NoneIn(s, k + 1, n, {","})} }
                    : j \in {j \in 1..n : j >= i + 2 /\ AllIn(s, i + 2, j, Whitespace)} }
            : i \in {i \in 1..n : i < n /\ s[i + 1] = "," /\ NoneIn(s, 1, i, {","})} }

\* The match the backtracking search finds first: every quantifier is greedy,
\* so the longest group 1, then the longest whitespace, then group 2 taking
\* part before not, and the longest group 2.
PatPrefer(m1, m2) ==
    \/ m1[1] > m2[1]
    \/ m1[1] = m2[1] /\ m1[2] > m2[2]
    \/ m1[1] = m2[1] /\ m1[2] = m2[2] /\ m1[3] >= m2[3]

\* Series.str.extract(pat) on one value: the three groups, NaN for a group
\* that took no part and for every group when there is no match
str_extract_pat(s) ==
    IF s = NaN \/ PatMatches(s) = {} THEN <<NaN, NaN, NaN>>
    ELSE LET m == CHOOSE m1 \in PatMatches(s) :
                      \A m2 \in PatMatches(s) : PatPrefer(m1, m2)
             n == Len(s)
         IN  <<SubSeq(s, 1, m[1]),
               IF m[3] = 0 THEN NaN ELSE SubSeq(s, m[2] + 1, m[3]),
               IF m[3] = 0 THEN SubSeq(s, m[2] + 1, n) ELSE SubSeq(s, m[3] + 1, n)>>

\* clean_name with the strip forgotten
clean_name_unstripped(v) == str_remove(fillna(v, <<>>), ",")

\* players[col].fillna('').str.strip().str.replace(',', '')
clean_name(v) == str_remove(str_strip(fillna(v, <<>>)), ",")

RECURSIVE SetColumns(_, _, _, _)
SetColumns(t, names, groups, g) ==
    IF g > Len(names) THEN t
    ELSE SetColumns(SetColumn(t, names[g],
                              [r \in DOMAIN t.rows |-> groups[r][g]]),
                    names, groups, g + 1)

\* _parse_name with the drop of the name column forgotten
_parse_name_undropped(players, column, drop_column) ==
    IF ~HasCol(players, column) THEN Raised("KeyError", <<column>>)
    ELSE Returned(SetColumns(players, new_cols,
                             [r \in DOMAIN players.rows |->
                                [g \in 1..3 |->
                                    clean_name(str_extract_pat(Column(players, column)[r])[g])]],
                             1))

_parse_name(players, column, drop_column) ==
    IF ~HasCol(players, column) THEN Raised("KeyError", <<column>>)
    ELSE LET extracted == [r \in DOMAIN players.rows |->
                              str_extract_pat(Column(players, column)[r])]
             cleaned == [r \in DOMAIN players.rows |->
                              [g \in 1..3 |-> clean_name(extracted[r][g])]]
             withNew == SetColumns(players, new_cols, cleaned, 1)
         IN  Returned(IF drop_column THEN DropCols(withNew, {column}) ELSE withNew)

---------------------------------------------------------------------------
(* The transport: requests.get, and what the upstream may answer.          *)

NoBody == [kind |-> "none", scalars |-> <<>>, nested |-> "", records |-> <<>>,
           text |-> <<>>]

\* The upstream's answer to one GET: a response with a status code and a
\* body, or no answer at all (ok = FALSE: unreachable host, reset, timeout)
Answer(status, body) == [ok |-> TRUE, status_code |-> status, body |-> body]
NoAnswer == [ok |-> FALSE, status_code |-> 0, body |-> NoBody]

\* The query string requests builds from params: the key/value pairs in
\* order, a pair whose value is None left out
QueryOf(params) == SelectSeq(params, LAMBDA p : p.v # None)

\* requests.get(url, params): sends one GET; gives back a Response object
\* (never None) when the upstream answers and raises ConnectionError when
\* it does not
requests_get(url, params, net) ==
    [sent |-> [url |-> url, query |-> QueryOf(params)],
     raised |-> ~net.ok,
     r |-> [is_none |-> FALSE, status_code |-> net.status_code, body |-> net.body]]

---------------------------------------------------------------------------
(* pandas: DataFrame(json), json_normalize, concat.                        *)

RECURSIVE Dedup(_)
Dedup(s) ==
    IF s = <<>> THEN <<>>
    ELSE LET d == Dedup(SubSeq(s, 1, Len(s) - 1))
         IN  IF \E i \in DOMAIN d : d[i] = s[Len(s)] THEN d ELSE Append(d, s[Len(s)])

KeysOf(rec) == [i \in DOMAIN rec |-> rec[i].k]

RECURSIVE AllKeys(_)
AllKeys(records) ==
    IF records = <<>> THEN <<>> ELSE KeysOf(Head(records)) \o AllKeys(Tail(records))

FieldValue(rec, k) ==
    IF \E i \in DOMAIN rec : rec[i].k = k
    THEN rec[CHOOSE i \in DOMAIN rec : rec[i].k = k].v
    ELSE NaN

\* pd.json_normalize(list of flat records): one row per record, one column
\* per key in order of first appearance, NaN where a record lacks the key;
\* no rows and no columns for an empty list
json_normalize(records) ==
    LET cols == Dedup(AllKeys(records))
    IN  [cols |-> cols,
         rows |-> [r \in DOMAIN records |->
                     [c \in DOMAIN cols |-> FieldValue(records[r], cols[c])]]]

Object == <<"<object>">>

\* pd.DataFrame(r.json()).  An array of records gives one row per record.
\* An envelope (scalar fields and one list of records) gives one row per
\* element of the list, the scalars repeated in every row; the cells of the
\* list's column hold the records, kept in objs.
DataFrame(json) ==
    IF json.kind = "array"
    THEN [cols |-> json_normalize(json.records).cols,
          rows |-> json_normalize(json.records).rows,
          objcol |-> "", objs |-> <<>>]
    ELSE [cols |-> Append(KeysOf(json.scalars), json.nested),
          rows |-> [r \in DOMAIN json.records |->
                      Append([i \in DOMAIN json.scalars |-> json.scalars[i].v], Object)],
          objcol |-> json.nested, objs |-> json.records]

FrameTable(frame) == [cols |-> frame.cols, rows |-> frame.rows]

Max(a, b) == IF a >= b THEN a ELSE b

\* pd.concat([a, b], axis=1): columns of a then columns of b, rows aligned on
\* the index 0..n-1, NaN where one side has no such row
concat(a, b) ==
    LET n == Max(Len(a.rows), Len(b.rows))
        cells(t, r) == IF r <= Len(t.rows) THEN t.rows[r]
                       ELSE [c \in DOMAIN t.cols |-> NaN]
    IN  [cols |-> a.cols \o b.cols,
         rows |-> [r \in 1..n |-> cells(a, r) \o cells(b, r)]]

\* combine_details with the drop of the nested column forgotten
combine_details_undropped(frame, nested, dropped) ==
    Returned(concat(FrameTable(frame), json_normalize(frame.objs)))

\* "Combine details":  deets = pd.json_normalize(frame[nested]);
\* basic_deets = frame.drop(dropped, axis=1); pd.concat([basic_deets, deets], axis=1)
combine_details(frame, nested, dropped) ==
    IF frame.objcol # nested THEN Raised("KeyError", <<nested>>)
    ELSE IF \E d \in dropped : ~HasCol(frame, d)
    THEN Raised("KeyError", <<CHOOSE d \in dropped : ~HasCol(frame, d)>>)
    ELSE Returned(concat(DropCols(FrameTable(frame), dropped),
                         json_normalize(frame.objs)))

---------------------------------------------------------------------------
(* __connect_api                                                           *)

base_msg(name, code) ==
    <<"Issue occurred with the request for ">> \o name
        \o <<". Status code ">> \o code \o <<" encountered.">>

\* url_prefix with the strip forgotten
url_prefix_unstripped(prefix) ==
    IF prefix = None THEN <<>> ELSE prefix \o <<"/">>

\* prefix = '' if prefix is None else prefix.strip('/') + '/'
url_prefix(prefix) ==
    IF prefix = None THEN <<>> ELSE Strip(prefix, {"/"}) \o <<"/">>

\* bad_response taking only server errors for failures
bad_response_5xx(r) == r.is_none \/ r.status_code >= 500

\* (r is None) or (r.status_code != 200)
bad_response(r) == r.is_none \/ r.status_code # 200

\* client_after with the url built kept as the new base
client_after_rebased(self, url) == [self EXCEPT !.base_url = url]

\* The client after __connect_api: the method reads self.base_url and
\* assigns no attribute of self
client_after(self, url) == self

\* connect_api with the raise on a bad response forgotten: the body is
\* handed on whatever the status
connect_api_swallowing(self, endpoint_name, params, prefix, return_request, net) ==
    LET url == self.base_url \o url_prefix(prefix) \o endpoint_name
        got == requests_get(url, params, net)
        r == got.r
    IN  [self |-> client_after(self, url),
         request |-> got.sent,
         gets |-> 1,
         r |-> net,
         exc |-> IF got.raised THEN Raised("ConnectionError", <<>>) ELSE NoResult,
         value |-> IF got.raised THEN NoBody
                   ELSE IF return_request THEN r.body
                   ELSE IF r.body.kind = "none"
                   THEN [cols |-> <<>>, rows |-> <<>>, objcol |-> "", objs |-> <<>>]
                   ELSE DataFrame(r.body)]

\* self is the client [api_key, base_url].  Gives the client after the call,
\* the GET that was sent, the upstream's answer, the exception raised (kind
\* "none": none) and the value returned: the body of the Response when
\* return_request, else the DataFrame.
connect_api(self, endpoint_name, params, prefix, return_request, net) ==
    LET url == self.base_url \o url_prefix(prefix) \o endpoint_name
        got == requests_get(url, params, net)
        r == got.r
    IN  [self |-> client_after(self, url),
         request |-> got.sent,
         gets |-> 1,
         r |-> net,
         exc |-> IF got.raised THEN Raised("ConnectionError", <<>>)
                 ELSE IF bad_response(r)
                 THEN Raised("DataGolfAPIResponseError",
                             IF r.is_none THEN base_msg(endpoint_name, <<"None">>)
                             ELSE base_msg(endpoint_name, IntToStr(r.status_code)))
                 ELSE NoResult,
         value |-> IF got.raised \/ bad_response(r) THEN NoBody
                   ELSE IF return_request THEN r.body
                   ELSE DataFrame(r.body)]

Param(k, v) == [k |-> k, v |-> v]

---------------------------------------------------------------------------
(* The location parser of get_tour_schedules.                              *)

\* Series.str.extract(r'^([^,]*)') on one value: the longest prefix without
\* a comma
extract_city(s) ==
    IF s = NaN THEN NaN
    ELSE LET ends == {l \in 0..Len(s) : NoneIn(s, 1, l, {","})}
         IN  SubSeq(s, 1, CHOOSE l \in ends : \A l2 \in ends : l2 <= l)

\* extract_us_state without the word boundaries
extract_us_state_unbounded(s) ==
    IF s = NaN THEN NaN
    ELSE LET starts == {p \in 1..(Len(s) - 1) : s[p] \in Upper /\ s[p + 1] \in Upper}
         IN  IF starts = {} THEN NaN
             ELSE LET p == CHOOSE p1 \in starts : \A p2 \in starts : p1 <= p2
                  IN  SubSeq(s, p, p + 1)

\* Series.str.extract(r'\b([A-Z]{2})\b') on one value: the leftmost two
\* capitals with a word boundary on both sides
extract_us_state(s) ==
    IF s = NaN THEN NaN
    ELSE LET starts == {p \in 1..(Len(s) - 1) :
                          /\ s[p] \in Upper
                          /\ s[p + 1] \in Upper
                          /\ (p = 1 \/ s[p - 1] \notin WordChars)
                          /\ (p + 1 = Len(s) \/ s[p + 2] \notin WordChars)}
         IN  IF starts = {} THEN NaN
             ELSE LET p == CHOOSE p1 \in starts : \A p2 \in starts : p1 <= p2
                  IN  SubSeq(s, p, p + 1)

\* Series.str.extract(r'^[^,]*,([^,]*),') on one value: what stands between
\* the first comma and the second
extract_other_state(s) ==
    IF s = NaN THEN NaN
    ELSE LET ms == {m \in (1..Len(s)) \X (1..Len(s)) :
                      /\ m[1] < m[2]
                      /\ s[m[1]] = ","
                      /\ s[m[2]] = ","
                      /\ NoneIn(s, 1, m[1] - 1, {","})
                      /\ NoneIn(s, m[1] + 1, m[2] - 1, {","})}
         IN  IF ms = {} THEN NaN
             ELSE LET m == CHOOSE m1 \in ms : TRUE
                  IN  SubSeq(s, m[1] + 1, m[2] - 1)

\* Series.str.extract(r'([^,]*)$') on one value: the search takes the
\* leftmost position from which no comma is left
extract_country(s) ==
    IF s = NaN THEN NaN
    ELSE LET starts == {q \in 1..(Len(s) + 1) : NoneIn(s, q, Len(s), {","})}
         IN  SubSeq(s, CHOOSE q1 \in starts : \A q2 \in starts : q1 <= q2, Len(s))

UnitedStates == <<"U", "n", "i", "t", "e", "d", " ", "S", "t", "a", "t", "e", "s">>

\* The body of "if explode_location:" up to the cleanup of country and
\* state: the four extractions, each stripped, then country and state
explode_location_columns(df) ==
    LET loc == Column(df, "location")
        rows == DOMAIN df.rows
        city == [r \in rows |-> str_strip(extract_city(loc[r]))]
        us_state == [r \in rows |-> str_strip(extract_us_state(loc[r]))]
        other_state == [r \in rows |-> str_strip(extract_other_state(loc[r]))]
        country0 == [r \in rows |-> str_strip(extract_country(loc[r]))]
        \* np.where(df['us_state']==df['country'], 'United States', df['country'])
        country == [r \in rows |->
                      IF us_state[r] # NaN /\ us_state[r] = country0[r]
                      THEN UnitedStates ELSE country0[r]]
        \* df['us_state'].fillna(df['other_state'])
        state == [r \in rows |-> fillna(us_state[r], other_state[r])]
    IN  SetColumn(
          SetColumn(
            SetColumn(
              SetColumn(
                SetColumn(df, "city", city),
                "us_state", us_state),
              "other_state", other_state),
            "country", country),
          "state", state)

schedule_cols_exploded ==
    <<"current_season", "tour", "course", "course_key", "event_id", "event_name",
      "latitude", "longitude", "start_date", "city", "state", "country", "location">>

schedule_cols_plain ==
    <<"current_season", "tour", "course", "course_key", "event_id", "event_name",
      "latitude", "longitude", "start_date", "location">>

\* return df[cols]
select_or_raise(df, cols) ==
    IF \E i \in DOMAIN cols : ~HasCol(df, cols[i])
    THEN Raised("KeyError", <<cols[CHOOSE i \in DOMAIN cols : ~HasCol(df, cols[i])]>>)
    ELSE Returned(SelectCols(df, cols))

\* schedule_table with the selection of cols forgotten: df is returned
schedule_table_unselected(frame, explode_location) ==
    LET comb == combine_details(frame, "schedule", {"schedule"})
        df == comb.table
    IN  IF comb.kind = "error" THEN comb
        ELSE IF explode_location
        THEN IF ~HasCol(df, "location") THEN Raised("KeyError", <<"location">>)
             ELSE Returned(explode_location_columns(df))
        ELSE Returned(df)

\* get_tour_schedules after the request: from "Combine details" to the return
schedule_table(frame, explode_location) ==
    LET comb == combine_details(frame, "schedule", {"schedule"})
        df == comb.table
    IN  IF comb.kind = "error" THEN comb
        ELSE IF explode_location
        THEN IF ~HasCol(df, "location") THEN Raised("KeyError", <<"location">>)
             ELSE select_or_raise(explode_location_columns(df), schedule_cols_exploded)
        ELSE select_or_raise(df, schedule_cols_plain)

---------------------------------------------------------------------------
(* Pieces of the other operations.                                         *)

\* "Expand name if desired" on a combined table
expand_name(comb, explode_name) ==
    IF comb.kind = "error" THEN comb
    ELSE IF explode_name THEN _parse_name(comb.table, "player_name", TRUE)
    ELSE comb

\* Python's ~ on a bool: the bitwise complement of the integer 0 or 1
Invert(b) == -(IF b THEN 1 ELSE 0) - 1

\* Python's truth value of an integer
Truthy(n) == n # 0

\* if ~include_notes: df = df.drop('note', axis=1)
drop_note(res, include_notes) ==
    IF res.kind = "error" THEN res
    ELSE IF Truthy(Invert(include_notes))
    THEN IF ~HasCol(res.table, "note") THEN Raised("KeyError", <<"note">>)
         ELSE Returned(DropCols(res.table, {"note"}))
    ELSE res

\* TruthyOpt testing "is not None" instead of the truth value
TruthyOpt_not_none(opt) == opt # {}

\* An optional integer argument is the empty set (None) or a singleton.
\* Python's truth value of it: None and 0 are false
TruthyOpt(opt) == opt # {} /\ opt # {0}
ValueOf(opt) == CHOOSE n \in opt : TRUE

\* str.split(sep), sep a single character: always at least one piece
RECURSIVE Split(_, _)
Split(s, sep) ==
    IF \A i \in DOMAIN s : s[i] # sep THEN <<s>>
    ELSE LET i == CHOOSE i1 \in DOMAIN s :
                      s[i1] = sep /\ \A i2 \in 1..(i1 - 1) : s[i2] # sep
         IN  <<SubSeq(s, 1, i - 1)>> \o Split(SubSeq(s, i + 1, Len(s)), sep)

\* csv_list = [row.split(',') for row in text.split('\n')]
csv_list(text) ==
    LET lines == Split(text, "\n") IN [i \in DOMAIN lines |-> Split(lines[i], ",")]

\* pd.DataFrame(csv_list[1:], columns=csv_list[0]).  The rows are padded
\* with None to the length of the longest one; that length must be the
\* number of column names or ValueError is raised.  No rows: no check.
csv_table(text) ==
    LET l == csv_list(text)
        header == l[1]
        data == Tail(l)
        width == CHOOSE w \in {Len(data[r]) : r \in DOMAIN data} :
                     \A r \in DOMAIN data : Len(data[r]) <= w
    IN  IF data # <<>> /\ width # Len(header)
        THEN Raised("ValueError", <<>>)
        ELSE Returned([cols |-> header,
                       rows |-> [r \in DOMAIN data |->
                                   [c \in DOMAIN header |->
                                       IF c <= Len(data[r]) THEN data[r][c] ELSE None]]])

\* add_position_rejected testing the truth value: an empty list passes
add_position_rejected_if_truthy(add_position) ==
    add_position # None /\ add_position # <<>>

\* if add_position is None: pass / else: raise DataGolfAPIInputError
add_position_rejected(add_position) == add_position # None

\* The endpoint and the params of get_pre_tourney_predictions
predictions_endpoint(event_id, year) ==
    IF TruthyOpt(event_id) \/ TruthyOpt(year)
    THEN <<"pre-tournament-archive">> ELSE <<"pre-tournament">>

predictions_params(key, tour, odds_format, event_id, year) ==
    <<Param("key", key), Param("file_format", <<"csv">>), Param("odds_format", odds_format)>>
    \o (IF predictions_endpoint(event_id, year) = <<"pre-tournament">>
        THEN <<Param("tour", tour)>>
        ELSE (IF TruthyOpt(event_id)
              THEN <<Param("event_id", IntToStr(ValueOf(event_id)))>> ELSE <<>>)
             \o (IF TruthyOpt(year)
                 THEN <<Param("year", IntToStr(ValueOf(year)))>> ELSE <<>>))

---------------------------------------------------------------------------
(* The client and the bookkeeping of one call.                             *)

BaseUrl == <<"https:", "/", "/", "feeds.datagolf.com", "/">>

Self == [api_key |-> api_key, base_url |-> base_url]

NoCall == [op |-> "", args |-> <<>>]
NoRequest == [url |-> <<>>, query |-> <<>>]

\* A call that went through __connect_api: c is what connect_api gave, res
\* what the operation gives back to its caller
Done(op, args, c, res) ==
    /\ call' = [op |-> op, args |-> args]
    /\ api_key' = c.self.api_key
    /\ base_url' = c.self.base_url
    /\ request' = c.request
    /\ gets' = c.gets
    /\ response' = c.r
    /\ result' = res

\* A call that ended before any request was made
DoneUnsent(op, args, res) ==
    /\ call' = [op |-> op, args |-> args]
    /\ request' = NoRequest
    /\ gets' = 0
    /\ response' = NoAnswer
    /\ result' = res
    /\ UNCHANGED <<api_key, base_url>>

Remember ==
    prev' = [call |-> call, request |-> request, response |-> response,
             result |-> result]

---------------------------------------------------------------------------
(* The public operations.  net is the upstream's answer to the GET.        *)

get_player_list(explode_name, net) ==
    LET c == connect_api(Self, <<"get-player-list">>,
                         <<Param("key", api_key), Param("file_format", <<"json">>)>>,
                         None, FALSE, net)
    IN  Done("get_player_list", [explode_name |-> explode_name], c,
             IF c.exc.kind = "error" THEN c.exc
             ELSE expand_name(Returned(FrameTable(c.value)), explode_name))

get_tour_schedules(tour, explode_location, net) ==
    LET c == connect_api(Self, <<"get-schedule">>,
                         <<Param("key", api_key), Param("file_format", <<"json">>),
                           Param("tour", tour)>>,
                         None, FALSE, net)
    IN  Done("get_tour_schedules",
             [tour |-> tour, explode_location |-> explode_location], c,
             IF c.exc.kind = "error" THEN c.exc
             ELSE schedule_table(c.value, explode_location))

get_field_updates(tour, net) ==
    LET c == connect_api(Self, <<"field-updates">>,
                         <<Param("key", api_key), Param("file_format", <<"json">>),
                           Param("tour", tour)>>,
                         None, FALSE, net)
    IN  Done("get_field_updates", [tour |-> tour], c,
             IF c.exc.kind = "error" THEN c.exc
             ELSE combine_details(c.value, "field", {"field", "event_name"}))

get_dg_rankings(explode_name, net) ==
    LET c == connect_api(Self, <<"get-dg-rankings">>,
                         <<Param("key", api_key), Param("file_format", <<"json">>)>>,
                         <<"preds">>, FALSE, net)
    IN  Done("get_dg_rankings", [explode_name |-> explode_name], c,
             IF c.exc.kind = "error" THEN c.exc
             ELSE expand_name(combine_details(c.value, "rankings", {"rankings", "notes"}),
                              explode_name))

get_pre_tourney_predictions(add_position, tour, odds_format, event_id, year, net) ==
    LET args == [add_position |-> add_position, tour |-> tour,
                 odds_format |-> odds_format, event_id |-> event_id, year |-> year]
        c == connect_api(Self, predictions_endpoint(event_id, year),
                         predictions_params(api_key, tour, odds_format, event_id, year),
                         <<"preds">>, TRUE, net)
    IN  IF add_position_rejected(add_position)
        THEN DoneUnsent("get_pre_tourney_predictions", args,
                        Raised("DataGolfAPIInputError", <<>>))
        ELSE Done("get_pre_tourney_predictions", args, c,
                  IF c.exc.kind = "error" THEN c.exc ELSE csv_table(c.value.text))

get_player_decompositions(tour, explode_name, net) ==
    LET c == connect_api(Self, <<"player-decompositions">>,
                         <<Param("key", api_key), Param("file_format", <<"json">>),
                           Param("tour", tour)>>,
                         <<"preds">>, FALSE, net)
    IN  Done("get_player_decompositions",
             [tour |-> tour, explode_name |-> explode_name], c,
             IF c.exc.kind = "error" THEN c.exc
             ELSE expand_name(combine_details(c.value, "players", {"players", "notes"}),
                              explode_name))

get_player_skill_ratings(explode_name, net) ==
    LET c == connect_api(Self, <<"skill-ratings">>,
                         <<Param("key", api_key), Param("display", <<"value">>),
                           Param("file_format", <<"json">>)>>,
                         <<"preds">>, FALSE, net)
    IN  Done("get_player_skill_ratings", [explode_name |-> explode_name], c,
             IF c.exc.kind = "error" THEN c.exc
             ELSE expand_name(combine_details(c.value, "players", {"players"}),
                              explode_name))

get_approach_skill(period, explode_name, net) ==
    LET c == connect_api(Self, <<"approach-skill">>,
                         <<Param("key", api_key), Param("period", period),
                           Param("file_format", <<"json">>)>>,
                         <<"preds">>, FALSE, net)
    IN  Done("get_approach_skill",
             [period |-> period, explode_name |-> explode_name], c,
             IF c.exc.kind = "error" THEN c.exc
             ELSE expand_name(combine_details(c.value, "data", {"data"}), explode_name))

get_fantasy(tour, site, slate, explode_name, include_notes, net) ==
    LET c == connect_api(Self, <<"fantasy-projection-defaults">>,
                         <<Param("key", api_key), Param("tour", tour),
                           Param("site", site), Param("slate", slate),
                           Param("file_format", <<"json">>)>>,
                         <<"preds">>, FALSE, net)
    IN  Done("get_fantasy",
             [tour |-> tour, site |-> site, slate |-> slate,
              explode_name |-> explode_name, include_notes |-> include_notes], c,
             IF c.exc.kind = "error" THEN c.exc
             ELSE drop_note(
                    expand_name(combine_details(c.value, "projections", {"projections"}),
                                explode_name),
                    include_notes))

\* __connect_api called on its own
connect_api_call(endpoint_name, params, prefix, return_request, net) ==
    LET c == connect_api(Self, endpoint_name, params, prefix, return_request, net)
    IN  Done("__connect_api",
             [endpoint_name |-> endpoint_name, params |-> params, prefix |-> prefix,
              return_request |-> return_request], c,
             IF c.exc.kind = "error" THEN c.exc
             ELSE IF return_request THEN [Returned(EmptyTable) EXCEPT !.kind = "response"]
             ELSE Returned(FrameTable(c.value)))

\* _parse_name called on its own
parse_name_call(players, column, drop_column) ==
    DoneUnsent("_parse_name",
               [players |-> players, column |-> column, drop_column |-> drop_column],
               _parse_name(players, column, drop_column))

---------------------------------------------------------------------------
(* Response fixtures.                                                      *)

Woods == <<"W", "o", "o", "d", "s", ",", " ", "T", "i", "g", "e", "r">>
Nicklaus == <<"N", "i", "c", "k", "l", "a", "u", "s", ",", " ", "J", "r", ".", ",", " ", "J", "a", "c", "k">>
Cher == <<"C", "h", "e", "r">>
AugustaGA == <<"A", "u", "g", "u", "s", "t", "a", ",", " ", "G", "A">>
AugustaGAUS == <<"A", "u", "g", "u", "s", "t", "a", ",", " ", "G", "A", ",", " ", "U", "n", "i", "t", "e", "d", " ", "S", "t", "a", "t", "e", "s">>
StAndrews == <<"S", "t", " ", "A", "n", "d", "r", "e", "w", "s", ",", " ", "F", "i", "f", "e", ",", " ", "S", "c", "o", "t", "l", "a", "n", "d">>

ApiKeys == {<<"key-1">>, <<"key-2">>}
Tours == {<<"pga">>, <<"euro">>}
FailCodes == {404, 500}

Envelope(scalars, nested, records) ==
    [kind |-> "envelope", scalars |-> scalars, nested |-> nested,
     records |-> records, text |-> <<>>]
Array(records) ==
    [kind |-> "array", scalars |-> <<>>, nested |-> "", records |-> records,
     text |-> <<>>]
Csv(text) ==
    [kind |-> "csv", scalars |-> <<>>, nested |-> "", records |-> <<>>, text |-> text]

Player(id, name) ==
    <<Param("country", <<"USA">>), Param("dg_id", id), Param("player_name", name)>>

Event(id, location) ==
    <<Param("course", <<"course-">> \o id), Param("course_key", id),
      Param("event_id", id), Param("event_name", <<"event-">> \o id),
      Param("latitude", <<"33.5">>), Param("location", location),
      Param("longitude", <<"-82.0">>), Param("start_date", <<"2023-04-06">>)>>

PlayerLists ==
    { <<>>, <<Player(<<"1">>, Woods)>>,
      <<Player(<<"1">>, Woods), Player(<<"2">>, Nicklaus)>>,
      <<Player(<<"3">>, Cher)>> }

EventLists ==
    { <<>>, <<Event(<<"14">>, AugustaGA)>>,
      <<Event(<<"14">>, AugustaGA), Event(<<"100">>, StAndrews)>> }

Updated == Param("last_updated", <<"2023-04-01 12:00:00 UTC">>)

PlayerListBodies == {Array(l) : l \in PlayerLists}
ScheduleBodies ==
    {Envelope(<<Param("current_season", <<"2023">>), Param("tour", <<"pga">>)>>,
              "schedule", l) : l \in EventLists}
FieldBodies ==
    {Envelope(<<Param("course_name", <<"Augusta National">>),
                Param("event_name", <<"Masters">>), Updated>>,
              "field", l) : l \in PlayerLists}
RankingBodies ==
    {Envelope(<<Updated, Param("notes", <<"n">>)>>, "rankings", l) : l \in PlayerLists}
DecompositionBodies ==
    {Envelope(<<Param("course_name", <<"Augusta National">>),
                Param("event_name", <<"Masters">>), Updated, Param("notes", <<"n">>)>>,
              "players", l) : l \in PlayerLists}
SkillBodies == {Envelope(<<Updated>>, "players", l) : l \in PlayerLists}
ApproachBodies ==
    {Envelope(<<Updated, Param("time_period", <<"l24">>)>>, "data", l) : l \in PlayerLists}
FantasyBodies ==
    {Envelope(<<Param("event_name", <<"Masters">>), Updated, Param("note", <<"n">>),
                Param("site", <<"draftkings">>), Param("slate", <<"main">>),
                Param("tour", <<"pga">>)>>,
              "projections", l) : l \in PlayerLists}
CsvBodies ==
    { Csv(<<"a", ",", "b">>),
      Csv(<<"a", ",", "b", "\n", "1", ",", "2", "\n", "3", ",", "4">>) }

\* What the upstream may answer: 200 with one of the bodies, another status,
\* or nothing
NetFor(bodies) ==
    {Answer(200, b) : b \in bodies} \cup {Answer(s, NoBody) : s \in FailCodes}
        \cup {NoAnswer}

---------------------------------------------------------------------------
(* The client: any sequence of public operations on one client.            *)

Init ==
    /\ api_key \in ApiKeys
    /\ base_url = BaseUrl
    /\ call = NoCall
    /\ request = NoRequest
    /\ gets = 0
    /\ response = NoAnswer
    /\ result = NoResult
    /\ prev = [call |-> NoCall, request |-> NoRequest, response |-> NoAnswer,
               result |-> NoResult]

Next ==
    \/ \E e \in BOOLEAN, net \in NetFor(PlayerListBodies) :
          get_player_list(e, net) /\ UNCHANGED prev
    \/ \E tour \in Tours, e \in BOOLEAN, net \in NetFor(ScheduleBodies) :
          get_tour_schedules(tour, e, net) /\ UNCHANGED prev
    \/ \E tour \in Tours, net \in NetFor(FieldBodies) :
          get_field_updates(tour, net) /\ UNCHANGED prev
    \/ \E e \in BOOLEAN, net \in NetFor(RankingBodies) :
          get_dg_rankings(e, net) /\ UNCHANGED prev
    \/ \E ap \in {None, <<>>, <<"top 30">>}, tour \in Tours,
          event_id \in {{}, {0}, {14}}, year \in {{}, {2021}},
          net \in NetFor(CsvBodies) :
          get_pre_tourney_predictions(ap, tour, <<"percent">>, event_id, year, net)
              /\ UNCHANGED prev
    \/ \E tour \in Tours, e \in BOOLEAN, net \in NetFor(DecompositionBodies) :
          get_player_decompositions(tour, e, net) /\ UNCHANGED prev
    \/ \E e \in BOOLEAN, net \in NetFor(SkillBodies) :
          get_player_skill_ratings(e, net) /\ UNCHANGED prev
    \/ \E e \in BOOLEAN, net \in NetFor(ApproachBodies) :
          get_approach_skill(<<"l24">>, e, net) /\ UNCHANGED prev
    \/ \E site \in {None, <<"draftkings">>}, e \in BOOLEAN, notes \in BOOLEAN,
          net \in NetFor(FantasyBodies) :
          get_fantasy(<<"pga">>, site, <<"main">>, e, notes, net) /\ UNCHANGED prev

Spec == Init /\ [][Next]_vars

---------------------------------------------------------------------------
(* _parse_name on every name string up to MaxNameLen.                      *)

\* A letter, a dot, a comma, a blank, and a character of no class of pat
NameAlphabet == {"a", ".", ",", " ", "-"}
NameStrings == StringsUpTo(NameAlphabet, MaxNameLen)

NameTable(s) ==
    [cols |-> <<"dg_id", "player_name", "country">>,
     rows |-> << <<<<"1">>, s, <<"USA">>>> >>]

\* The call is drawn first and then made
InitName ==
    /\ api_key = <<"key-1">>
    /\ base_url = BaseUrl
    /\ call \in {[op |-> "_parse_name",
                  args |-> [players |-> NameTable(s), column |-> "player_name",
                            drop_column |-> TRUE]] : s \in NameStrings}
    /\ request = NoRequest
    /\ gets = 0
    /\ response = NoAnswer
    /\ result = NoResult
    /\ prev = [call |-> NoCall, request |-> NoRequest, response |-> NoAnswer,
               result |-> NoResult]

NextName ==
    /\ result = NoResult
    /\ parse_name_call(call.args.players, call.args.column, call.args.drop_column)
    /\ UNCHANGED prev

SpecName == InitName /\ [][NextName]_vars

---------------------------------------------------------------------------
(* get_tour_schedules on every location string up to MaxLocLen.            *)

\* Two capitals, a small letter, a comma, a blank
LocAlphabet == {"G", "A", "a", ",", " "}
LocStrings == StringsUpTo(LocAlphabet, MaxLocLen)

ScheduleBody(events) ==
    Envelope(<<Param("current_season", <<"2023">>), Param("tour", <<"pga">>)>>,
             "schedule", events)

\* The upstream holds one schedule with one event at the drawn location
InitLoc ==
    /\ api_key = <<"key-1">>
    /\ base_url = BaseUrl
    /\ call = NoCall
    /\ request = NoRequest
    /\ gets = 0
    /\ response \in {Answer(200, ScheduleBody(<<Event(<<"14">>, s)>>)) :
                        s \in LocStrings \cup {AugustaGA, AugustaGAUS}}
    /\ result = NoResult
    /\ prev = [call |-> NoCall, request |-> NoRequest, response |-> NoAnswer,
               result |-> NoResult]

NextLoc ==
    /\ call = NoCall
    /\ \E e \in BOOLEAN : get_tour_schedules(<<"pga">>, e, response)
    /\ UNCHANGED prev

SpecLoc == InitLoc /\ [][NextLoc]_vars

---------------------------------------------------------------------------
(* The normalizer on envelopes of up to MaxRecords records, through        *)
(* get_player_skill_ratings without name expansion.                        *)

Val1 == <<"1">>
Val2 == <<"2">>

NormScalars ==
    { <<>>, <<Param("a", Val1)>>, <<Param("a", Val2), Param("b", Val1)>>,
      <<Param("b", Val2), Param("a", Val1)>> }

\* Records of differing key sets and key orders, one without fields, one
\* with a field named like a scalar of the envelope
NormRecords ==
    { <<>>, <<Param("x", Val1)>>, <<Param("x", Val2)>>,
      <<Param("x", Val1), Param("y", Val2)>>, <<Param("y", Val1)>>,
      <<Param("a", Val2)>> }

NormLists == UNION {[1..n -> NormRecords] : n \in 0..MaxRecords}

NormEnvelopes == {Envelope(s, "players", l) : s \in NormScalars, l \in NormLists}

InitNorm ==
    /\ api_key = <<"key-1">>
    /\ base_url = BaseUrl
    /\ call = NoCall
    /\ request = NoRequest
    /\ gets = 0
    /\ response \in {Answer(200, env) : env \in NormEnvelopes}
    /\ result = NoResult
    /\ prev = [call |-> NoCall, request |-> NoRequest, response |-> NoAnswer,
               result |-> NoResult]

NextNorm ==
    /\ call = NoCall
    /\ get_player_skill_ratings(FALSE, response)
    /\ UNCHANGED prev

SpecNorm == InitNorm /\ [][NextNorm]_vars

---------------------------------------------------------------------------
(* The request builder on every prefix up to MaxPrefixLen.                 *)

PrefixAlphabet == {"/", "preds", "v1"}
Prefixes == {None} \cup StringsUpTo(PrefixAlphabet, MaxPrefixLen)
EndpointNames == {<<"get-schedule">>, <<"skill-ratings">>}

\* Each of three parameters absent, given a value, or given None
ParamChoices(k, v) == {<<>>, <<Param(k, v)>>, <<Param(k, None)>>}
ParamMaps ==
    {a \o b \o c : a \in ParamChoices("key", <<"key-1">>),
                   b \in ParamChoices("tour", <<"pga">>),
                   c \in ParamChoices("site", <<"draftkings">>)}

InitBuilder == Init /\ api_key = <<"key-1">>

NextBuilder ==
    /\ call = NoCall
    /\ \/ \E e \in EndpointNames, m \in ParamMaps, p \in Prefixes, rr \in BOOLEAN,
             net \in {Answer(200, Array(<<Player(<<"1">>, Woods)>>)), Answer(404, NoBody)} :
             connect_api_call(e, m, p, rr, net)
       \/ \E site \in {None, <<"draftkings">>, <<"fanduel">>}, tour \in Tours,
             net \in NetFor(FantasyBodies) :
             get_fantasy(tour, site, <<"main">>, TRUE, FALSE, net)
    /\ UNCHANGED prev

SpecBuilder == InitBuilder /\ [][NextBuilder]_vars

---------------------------------------------------------------------------
(* Pairs of consecutive calls on one client.                               *)

RepeatNet(records, scalars, nested) ==
    {Answer(200, Envelope(scalars, nested, records)), Answer(404, NoBody)}

TwoPlayers == <<Player(<<"1">>, Woods), Player(<<"2">>, Nicklaus)>>

NextRepeat ==
    \/ \E e \in BOOLEAN, net \in {Answer(200, Array(TwoPlayers)), Answer(404, NoBody)} :
          get_player_list(e, net) /\ Remember
    \/ \E e \in BOOLEAN,
          net \in {Answer(200, ScheduleBody(<<Event(<<"14">>, AugustaGA)>>)), NoAnswer} :
          get_tour_schedules(<<"pga">>, e, net) /\ Remember
    \/ \E tour \in Tours,
          net \in RepeatNet(TwoPlayers, <<Param("event_name", <<"Masters">>)>>, "field") :
          get_field_updates(tour, net) /\ Remember
    \/ \E e \in BOOLEAN,
          net \in RepeatNet(TwoPlayers, <<Updated, Param("notes", <<"n">>)>>, "rankings") :
          get_dg_rankings(e, net) /\ Remember
    \/ \E ap \in {None, <<>>}, event_id \in {{}, {14}}, net \in NetFor(CsvBodies) :
          get_pre_tourney_predictions(ap, <<"pga">>, <<"percent">>, event_id, {}, net)
              /\ Remember
    \/ \E e \in BOOLEAN,
          net \in RepeatNet(TwoPlayers, <<Updated, Param("notes", <<"n">>)>>, "players") :
          get_player_decompositions(<<"pga">>, e, net) /\ Remember
    \/ \E e \in BOOLEAN, net \in RepeatNet(TwoPlayers, <<Updated>>, "players") :
          get_player_skill_ratings(e, net) /\ Remember
    \/ \E e \in BOOLEAN, net \in RepeatNet(TwoPlayers, <<Updated>>, "data") :
          get_approach_skill(<<"l24">>, e, net) /\ Remember
    \/ \E site \in {None, <<"draftkings">>}, notes \in BOOLEAN,
          net \in RepeatNet(TwoPlayers, <<Updated, Param("note", <<"n">>)>>, "projections") :
          get_fantasy(<<"pga">>, site, <<"main">>, TRUE, notes, net) /\ Remember

SpecRepeat == Init /\ [][NextRepeat]_vars

---------------------------------------------------------------------------
(* _parse_name on player tables of up to MaxRecords rows, keeping or       *)
(* dropping the name column, and the operations that take explode_name.    *)

\* A matching name with and without a suffix, two that do not match, a
\* missing one
FrameNames == {Woods, Nicklaus, Cher, <<"a", ",", "b">>, NaN}
FrameNameLists == UNION {[1..n -> FrameNames] : n \in 0..MaxRecords}

\* The name column first, in the middle, last, under another name, and
\* absent
FrameTables ==
    {[cols |-> <<"player_name", "dg_id", "country">>,
      rows |-> [r \in DOMAIN l |-> <<l[r], IntToStr(r), <<"USA">>>>]] :
        l \in FrameNameLists}
    \cup {[cols |-> <<"dg_id", "player_name", "country">>,
           rows |-> [r \in DOMAIN l |-> <<IntToStr(r), l[r], <<"USA">>>>]] :
            l \in FrameNameLists}
    \cup {[cols |-> <<"dg_id", "country", "name">>,
           rows |-> [r \in DOMAIN l |-> <<IntToStr(r), <<"USA">>, l[r]>>]] :
            l \in FrameNameLists}
    \cup {[cols |-> <<"dg_id", "country">>,
           rows |-> [r \in DOMAIN l |-> <<IntToStr(r), <<"USA">>>>]] :
            l \in FrameNameLists}

NextFrame ==
    /\ call = NoCall
    /\ \/ \E t \in FrameTables, column \in {"player_name", "name"}, d \in BOOLEAN :
             parse_name_call(t, column, d)
       \/ \E e \in BOOLEAN, net \in NetFor(PlayerListBodies) : get_player_list(e, net)
       \/ \E e \in BOOLEAN, net \in NetFor(RankingBodies) : get_dg_rankings(e, net)
       \/ \E e \in BOOLEAN, net \in NetFor(DecompositionBodies) :
             get_player_decompositions(<<"pga">>, e, net)
       \/ \E e \in BOOLEAN, net \in NetFor(SkillBodies) : get_player_skill_ratings(e, net)
       \/ \E e \in BOOLEAN, net \in NetFor(ApproachBodies) :
             get_approach_skill(<<"l24">>, e, net)
       \/ \E e \in BOOLEAN, notes \in BOOLEAN, net \in NetFor(FantasyBodies) :
             get_fantasy(<<"pga">>, None, <<"main">>, e, notes, net)
    /\ UNCHANGED prev

SpecFrame == InitBuilder /\ [][NextFrame]_vars

---------------------------------------------------------------------------
(* get_pre_tourney_predictions on every CSV body up to MaxCsvLen.          *)

\* Two field characters, the field separator, the line terminator
CsvAlphabet == {"a", "1", ",", "\n"}
CsvStrings == StringsUpTo(CsvAlphabet, MaxCsvLen)

InitCsv ==
    /\ api_key = <<"key-1">>
    /\ base_url = BaseUrl
    /\ call = NoCall
    /\ request = NoRequest
    /\ gets = 0
    /\ response \in {Answer(200, Csv(text)) : text \in CsvStrings}
    /\ result = NoResult
    /\ prev = [call |-> NoCall, request |-> NoRequest, response |-> NoAnswer,
               result |-> NoResult]

NextCsv ==
    /\ call = NoCall
    /\ get_pre_tourney_predictions(None, <<"pga">>, <<"percent">>, {}, {}, response)
    /\ UNCHANGED prev

SpecCsv == InitCsv /\ [][NextCsv]_vars

---------------------------------------------------------------------------
(* Properties.                                                             *)

Last(s) == s[Len(s)]
Contains(s, sub) ==
    \E i \in 1..(Len(s) - Len(sub) + 1) : SubSeq(s, i, i + Len(sub) - 1) = sub
RangeOf(s) == {s[i] : i \in DOMAIN s}

\* The three decimal digits of a status code
Decimal3(n) == <<DigitOf(n \div 100), DigitOf((n \div 10) % 10), DigitOf(n % 10)>>

IsRetrieval == call.op \notin {"", "__connect_api", "_parse_name"}

\* C1: whenever the GET of a retrieval operation is answered with a status
\* code other than 200, the operation raises DataGolfAPIResponseError, the
\* message names the endpoint that was requested and the status code, and no
\* table is returned.
C1_Non200Raises ==
    (IsRetrieval /\ gets = 1 /\ response.ok /\ response.status_code # 200)
        => /\ result.kind = "error"
           /\ result.error = "DataGolfAPIResponseError"
           /\ Contains(result.msg, <<Last(request.url), ". Status code ">>)
           /\ Contains(result.msg, <<". Status code ">> \o Decimal3(response.status_code))
           /\ result.table = EmptyTable

C1_Witness ==
    /\ call.op = "get_fantasy"
    /\ gets = 1
    /\ response.ok
    /\ response.status_code = 404
    /\ result.error = "DataGolfAPIResponseError"
    /\ Last(request.url) = "fantasy-projection-defaults"

\* What is left of p when every '/' at its start and at its end is removed
Unslashed(p) ==
    CHOOSE m \in {SubSeq(p, a + 1, Len(p) - b) : a \in 0..Len(p), b \in 0..Len(p)} :
        /\ \E a \in 0..Len(p), b \in 0..Len(p) :
              /\ a + b <= Len(p)
              /\ m = SubSeq(p, a + 1, Len(p) - b)
              /\ AllIn(p, 1, a, {"/"})
              /\ AllIn(p, Len(p) - b + 1, Len(p), {"/"})
        /\ m = <<>> \/ (m[1] # "/" /\ m[Len(m)] # "/")

\* C2: the URL requested is base_url + prefix + endpoint name, the prefix
\* being empty when none is given and otherwise the given one without its
\* leading and trailing '/' and followed by one '/'; the query string holds
\* exactly the parameters whose value is not None, so get_fantasy with
\* site=None sends no 'site'.
C2_RequestBuilt ==
    /\ call.op = "__connect_api"
        => /\ request.url =
                base_url
                \o (IF call.args.prefix = None THEN <<>>
                    ELSE Unslashed(call.args.prefix) \o <<"/">>)
                \o call.args.endpoint_name
           /\ RangeOf(request.query) = {p \in RangeOf(call.args.params) : p.v # None}
           /\ Len(request.query) = Cardinality(RangeOf(request.query))
    /\ call.op = "get_fantasy"
        => /\ request.url = base_url \o <<"preds", "/", "fantasy-projection-defaults">>
           /\ (\E p \in RangeOf(request.query) : p.k = "site") <=> call.args.site # None
           /\ \A p \in RangeOf(request.query) : p.k = "site" => p.v = call.args.site
           /\ {p.k : p \in RangeOf(request.query)} \ {"site"} =
                {"key", "tour", "slate", "file_format"}

C2_Witness ==
    /\ call.op = "__connect_api"
    /\ call.args.prefix = <<"/", "preds", "/">>
    /\ \E p \in RangeOf(call.args.params) : p.v = None
    /\ request.url = BaseUrl \o <<"preds", "/", "get-schedule">>
    /\ request.query = <<Param("key", <<"key-1">>)>>

\* C3: an envelope of scalar fields and one list of n >= 1 records is
\* normalized to exactly n rows in the order of the list; row i holds every
\* scalar field with the envelope's value and every field of record i, and
\* the list itself is no column.
C3_Normalized ==
    (/\ call.op = "get_player_skill_ratings"
     /\ response.ok /\ response.status_code = 200
     /\ Len(response.body.records) >= 1)
        => LET env == response.body
               n == Len(env.records)
               k == Len(env.scalars)
               t == result.table
           IN  /\ result.kind = "table"
               /\ Len(t.rows) = n
               /\ \A i \in 1..n :
                    /\ \A j \in 1..k :
                          /\ t.cols[j] = env.scalars[j].k
                          /\ t.rows[i][j] = env.scalars[j].v
                    /\ \A f \in DOMAIN env.records[i] :
                          \E c \in (k + 1)..Len(t.cols) :
                              /\ t.cols[c] = env.records[i][f].k
                              /\ t.rows[i][c] = env.records[i][f].v
               /\ \A c \in DOMAIN t.cols : t.cols[c] # env.nested

C3_Witness ==
    /\ call.op = "get_player_skill_ratings"
    /\ response.body.scalars = <<Param("a", Val2), Param("b", Val1)>>
    /\ response.body.records = << <<Param("x", Val1), Param("y", Val2)>>, <<Param("y", Val1)>> >>
    /\ result.kind = "table"
    /\ result.table.cols = <<"a", "b", "x", "y">>
    /\ result.table.rows = << <<Val2, Val1, Val1, Val2>>, <<Val2, Val1, NaN, Val1>> >>

\* The name given to _parse_name in the first row, and what came back for it
NameGiven == call.args.players.rows[1][ColIndex(call.args.players, call.args.column)]
Parsed(col) == Column(result.table, col)[1]

NameToken == Upper \cup Lower \cup {"."}

\* C4: "L, F" gives last_name L, suffix "" and first_name F; "L, S, F", S a
\* token of letters and dots, gives last_name L, suffix S and first_name F;
\* every value trimmed and free of commas.
C4_NameParsed ==
    (call.op = "_parse_name" /\ result # NoResult)
        => LET s == NameGiven
               n == Len(s)
           IN  /\ result.kind = "table"
               /\ \A i \in 1..n :
                    (/\ i + 3 <= n
                     /\ s[i + 1] = "," /\ s[i + 2] = " "
                     /\ NoneIn(s, 1, i, {","})
                     /\ NoneIn(s, i + 3, n, {","}))
                        => /\ Parsed("last_name") = Strip(SubSeq(s, 1, i), Whitespace)
                           /\ Parsed("suffix") = <<>>
                           /\ Parsed("first_name") = Strip(SubSeq(s, i + 3, n), Whitespace)
               /\ \A i \in 1..n, k \in 1..n :
                    (/\ i + 3 <= k /\ k + 3 <= n
                     /\ s[i + 1] = "," /\ s[i + 2] = " "
                     /\ s[k + 1] = "," /\ s[k + 2] = " "
                     /\ NoneIn(s, 1, i, {","})
                     /\ AllIn(s, i + 3, k, NameToken)
                     /\ NoneIn(s, k + 3, n, {","}))
                        => /\ Parsed("last_name") = Strip(SubSeq(s, 1, i), Whitespace)
                           /\ Parsed("suffix") = SubSeq(s, i + 3, k)
                           /\ Parsed("first_name") = Strip(SubSeq(s, k + 3, n), Whitespace)

\* A name of the form "L, S, F" was parsed into three non-empty parts
C4_Witness ==
    /\ call.op = "_parse_name"
    /\ result.kind = "table"
    /\ NameGiven = <<"a", ",", " ", ".", ",", " ", "-">>
    /\ Parsed("last_name") = <<"a">>
    /\ Parsed("suffix") = <<".">>
    /\ Parsed("first_name") = <<"-">>

\* The location the upstream gave for the first event, and the columns
\* get_tour_schedules made of it
LocationGiven == FieldValue(response.body.records[1], "location")
Located(col) == Column(result.table, col)[1]

CommasOf(s) == {i \in DOMAIN s : s[i] = ","}
MinOf(S) == CHOOSE x \in S : \A y \in S : x <= y
MaxOf(S) == CHOOSE x \in S : \A y \in S : x >= y
BeforeFirstComma(s) ==
    IF CommasOf(s) = {} THEN s ELSE SubSeq(s, 1, MinOf(CommasOf(s)) - 1)
AfterLastComma(s) ==
    IF CommasOf(s) = {} THEN s ELSE SubSeq(s, MaxOf(CommasOf(s)) + 1, Len(s))
BetweenFirstCommas(s) ==
    LET c1 == MinOf(CommasOf(s))
        c2 == MinOf(CommasOf(s) \ {c1})
    IN  SubSeq(s, c1 + 1, c2 - 1)

\* Where a token of exactly two capitals stands alone: no letter, digit or
\* underscore next to it
StandaloneAt(s) ==
    {p \in 1..(Len(s) - 1) :
        /\ s[p] \in Upper /\ s[p + 1] \in Upper
        /\ (p > 1 => s[p - 1] \notin WordChars)
        /\ (p + 1 < Len(s) => s[p + 2] \notin WordChars)}
FirstStandalone(s) == SubSeq(s, MinOf(StandaloneAt(s)), MinOf(StandaloneAt(s)) + 1)

Augusta == <<"A", "u", "g", "u", "s", "t", "a">>
GA == <<"G", "A">>

\* C5: with explode_location, city is the trimmed text before the first
\* comma; state is the first standalone two-capital token if there is one,
\* else the trimmed text between the first and the second comma; country is
\* "United States" when that token equals the trimmed text after the last
\* comma, else that trimmed text.  "Augusta, GA, United States" and
\* "Augusta, GA" both give Augusta, GA, United States.
C5_LocationParsed ==
    (call.op = "get_tour_schedules" /\ call.args.explode_location)
        => LET s == LocationGiven
               tail == Strip(AfterLastComma(s), Whitespace)
           IN  /\ result.kind = "table"
               /\ Located("city") = Strip(BeforeFirstComma(s), Whitespace)
               /\ StandaloneAt(s) # {} => Located("state") = FirstStandalone(s)
               /\ (StandaloneAt(s) = {} /\ Cardinality(CommasOf(s)) >= 2)
                    => Located("state") = Strip(BetweenFirstCommas(s), Whitespace)
               /\ Located("country") =
                    IF StandaloneAt(s) # {} /\ FirstStandalone(s) = tail
                    THEN UnitedStates ELSE tail
               /\ s \in {AugustaGA, AugustaGAUS}
                    => /\ Located("city") = Augusta
                       /\ Located("state") = GA
                       /\ Located("country") = UnitedStates

\* The trailing token was itself the state code: the country is filled in
C5_Witness ==
    /\ call.op = "get_tour_schedules"
    /\ call.args.explode_location
    /\ LocationGiven = AugustaGA
    /\ result.kind = "table"
    /\ Located("city") = Augusta
    /\ Located("state") = GA
    /\ Located("country") = UnitedStates

\* C6: the table get_fantasy returns has the 'note' column if and only if
\* include_notes is True.
C6_NoteIffIncluded ==
    (call.op = "get_fantasy" /\ result.kind = "table")
        => (HasCol(result.table, "note") <=> call.args.include_notes)

\* C7: with add_position supplied, get_pre_tourney_predictions raises
\* DataGolfAPIInputError and no GET is sent, whatever the other arguments.
C7_AddPositionRejected ==
    (call.op = "get_pre_tourney_predictions" /\ call.args.add_position # None)
        => /\ result.kind = "error"
           /\ result.error = "DataGolfAPIInputError"
           /\ gets = 0
           /\ request = NoRequest

C7_Witness ==
    /\ call.op = "get_pre_tourney_predictions"
    /\ call.args.add_position = <<>>
    /\ call.args.event_id = {14}
    /\ result.error = "DataGolfAPIInputError"
    /\ gets = 0

\* C8: when the GET gets no response at all, the operation fails with
\* DataGolfAPIResponseError naming the endpoint and a None status.
C8_NoResponseRaisesResponseError ==
    (IsRetrieval /\ gets = 1 /\ ~response.ok)
        => /\ result.kind = "error"
           /\ result.error = "DataGolfAPIResponseError"
           /\ Contains(result.msg, <<Last(request.url), ". Status code ", "None">>)

\* C9: the same operation called twice in a row on one client with the same
\* arguments, the upstream answering the same both times, sends the same
\* request and gives back the same result.
C9_RepeatIdentical ==
    (/\ call.op # ""
     /\ prev.call.op = call.op
     /\ prev.call.args = call.args
     /\ prev.response = response)
        => /\ prev.request = request
           /\ prev.result = result

C9_Witness ==
    /\ call.op = "get_dg_rankings"
    /\ prev.call = call
    /\ prev.response = response
    /\ response.ok /\ response.status_code = 200
    /\ result.kind = "table"
    /\ prev.result = result

\* C10: no operation, successful or failing, changes api_key or base_url.
C10_ClientUnchanged ==
    [][api_key' = api_key /\ base_url' = base_url]_vars

C10_Witness ==
    /\ call.op = "get_tour_schedules"
    /\ gets = 1
    /\ result.kind = "error"
    /\ api_key = <<"key-2">>
    /\ base_url = BaseUrl

\* The operations that take explode_name
TakesExplodeName ==
    call.op \in {"get_player_list", "get_dg_rankings", "get_player_decompositions",
                 "get_player_skill_ratings", "get_approach_skill", "get_fantasy"}

DocumentedColumns ==
    <<"current_season", "tour", "course", "course_key", "event_id", "event_name",
      "latitude", "longitude", "start_date", "city", "state", "country", "location">>
OptionalColumns == {"city", "state", "country"}

\* C12: a schedule of at least one event is returned as a table; with
\* explode_location its columns are the thirteen documented ones in the
\* documented order, location holding what the upstream gave; without, the
\* ten that are left when city, state and country are taken out.
C12_ScheduleColumns ==
    (/\ call.op = "get_tour_schedules"
     /\ response.ok /\ response.status_code = 200
     /\ Len(response.body.records) >= 1)
        => LET t == result.table
               events == response.body.records
           IN  /\ result.kind = "table"
               /\ Len(DocumentedColumns) = 13
               /\ t.cols = IF call.args.explode_location THEN DocumentedColumns
                           ELSE SelectSeq(DocumentedColumns,
                                          LAMBDA c : c \notin OptionalColumns)
               /\ Len(t.cols) = IF call.args.explode_location THEN 13 ELSE 10
               /\ Len(t.rows) = Len(events)
               /\ \A r \in DOMAIN events :
                     t.rows[r][Len(t.cols)] = FieldValue(events[r], "location")

C12_Witness ==
    /\ call.op = "get_tour_schedules"
    /\ call.args.explode_location
    /\ result.kind = "table"
    /\ Len(result.table.cols) = 13
    /\ Column(result.table, "location") = <<AugustaGA, StAndrews>>
    /\ Column(result.table, "state") = <<GA, <<"F", "i", "f", "e">>>>

\* C13: every operation that normalizes an envelope, answered 200 with an
\* envelope whose nested list is empty, returns a table of no rows whose
\* columns are all scalar fields of the envelope.
C13_EmptyListGivesEmptyTable ==
    (/\ IsRetrieval
     /\ response.ok /\ response.status_code = 200
     /\ response.body.kind = "envelope"
     /\ response.body.records = <<>>)
        => /\ result.kind = "table"
           /\ result.table.rows = <<>>
           /\ RangeOf(result.table.cols) \subseteq RangeOf(KeysOf(response.body.scalars))

\* C14: a name with no comma, with no whitespace after its first comma, or
\* with three or more commas, and any other name the pattern does not match,
\* is parsed without error into three empty strings; and whatever the name,
\* no parsed field is null, holds a comma, or starts or ends with whitespace.
C14_UnmatchedEmpty ==
    (call.op = "_parse_name" /\ result # NoResult)
        => LET s == NameGiven
               first == MinOf(CommasOf(s))
               unmatched ==
                   \/ CommasOf(s) = {}
                   \/ CommasOf(s) # {} /\ (first = Len(s) \/ s[first + 1] \notin Whitespace)
                   \/ Cardinality(CommasOf(s)) >= 3
                   \/ PatMatches(s) = {}
           IN  /\ result.kind = "table"
               /\ unmatched => \A g \in 1..3 : Parsed(new_cols[g]) = <<>>
               /\ \A g \in 1..3 :
                     LET v == Parsed(new_cols[g])
                     IN  /\ v \notin {NaN, None}
                         /\ CommasOf(v) = {}
                         /\ v # <<>> => (v[1] \notin Whitespace /\ Last(v) \notin Whitespace)

\* Three commas: more than one token after the last name
C14_Witness ==
    /\ call.op = "_parse_name"
    /\ NameGiven = <<"a", ",", " ", "a", ",", "a", ",">>
    /\ result.kind = "table"
    /\ Parsed("last_name") = <<>>
    /\ Parsed("suffix") = <<>>
    /\ Parsed("first_name") = <<>>

\* C15: a call of a retrieval operation sends no GET or one.  It ends with
\* a table only after one GET answered 200, the table holding a row for
\* every record of the body; a GET that is not answered 200 ends the call
\* with the error of that GET and no table; a call that sent no GET ends
\* with an error.
C15_SingleGet ==
    IsRetrieval
        => /\ gets \in {0, 1}
           /\ result.kind \in {"table", "error"}
           /\ result.kind = "table"
                => /\ gets = 1
                   /\ response.ok /\ response.status_code = 200
                   /\ response.body.kind \in {"array", "envelope"}
                        => Len(result.table.rows) = Len(response.body.records)
           /\ result.kind = "error" => result.table = EmptyTable
           /\ (gets = 1 /\ response.ok /\ response.status_code # 200)
                => result.kind = "error" /\ result.error = "DataGolfAPIResponseError"
           /\ (gets = 1 /\ ~response.ok)
                => result.kind = "error" /\ result.error = "ConnectionError"
           /\ gets = 0 => result.kind = "error"

\* One GET, answered 500, and the error of it given to the caller
C15_Witness ==
    /\ call.op = "get_field_updates"
    /\ gets = 1
    /\ response.ok /\ response.status_code = 500
    /\ result.kind = "error"
    /\ result.error = "DataGolfAPIResponseError"
    /\ result.table = EmptyTable

\* The number a string of decimal digits stands for
RECURSIVE NumberOf(_)
NumberOf(str) ==
    IF str = <<>> THEN 0
    ELSE 10 * NumberOf(SubSeq(str, 1, Len(str) - 1))
         + (CHOOSE d \in 0..9 : DigitOf(d) = Last(str))

QueryKeys == {p.k : p \in RangeOf(request.query)}
QueryValue(k) == (CHOOSE p \in RangeOf(request.query) : p.k = k).v

\* C16: get_pre_tourney_predictions without add_position requests
\* preds/pre-tournament-archive when event_id or year is given and not 0,
\* preds/pre-tournament otherwise.  key, file_format=csv and odds_format are
\* always sent; tour only to pre-tournament; event_id and year only to the
\* archive, each only when given and not 0, as its decimal string.
C16_PredictionsRequest ==
    (call.op = "get_pre_tourney_predictions" /\ call.args.add_position = None)
        => LET a == call.args
               given(opt) == opt \notin {{}, {0}}
               archive == given(a.event_id) \/ given(a.year)
           IN  /\ gets = 1
               /\ request.url =
                     base_url \o <<"preds", "/">>
                     \o <<IF archive THEN "pre-tournament-archive" ELSE "pre-tournament">>
               /\ QueryKeys =
                     {"key", "file_format", "odds_format"}
                     \cup (IF ~archive THEN {"tour"} ELSE {})
                     \cup (IF archive /\ given(a.event_id) THEN {"event_id"} ELSE {})
                     \cup (IF archive /\ given(a.year) THEN {"year"} ELSE {})
               /\ Len(request.query) = Cardinality(QueryKeys)
               /\ QueryValue("key") = api_key
               /\ QueryValue("file_format") = <<"csv">>
               /\ QueryValue("odds_format") = a.odds_format
               /\ "tour" \in QueryKeys => QueryValue("tour") = a.tour
               /\ \A k \in {"event_id", "year"} \cap QueryKeys :
                     LET v == QueryValue(k)
                         n == IF k = "event_id" THEN a.event_id ELSE a.year
                     IN  /\ v # <<>>
                         /\ RangeOf(v) \subseteq Digits
                         /\ v[1] # "0"
                         /\ n = {NumberOf(v)}

\* event_id 0 with a year: the archive is asked for the year alone
C16_Witness ==
    /\ call.op = "get_pre_tourney_predictions"
    /\ call.args.add_position = None
    /\ call.args.event_id = {0}
    /\ call.args.year = {2021}
    /\ Last(request.url) = "pre-tournament-archive"
    /\ QueryKeys = {"key", "file_format", "odds_format", "year"}
    /\ QueryValue("year") = <<"2", "0", "2", "1">>

\* The lines of a text: a line starts at the first character and after
\* every line terminator that is not the last character, and runs up to the
\* next terminator or the end
LineStarts(text) ==
    {1} \cup {p + 1 : p \in {q \in DOMAIN text : text[q] = "\n" /\ q < Len(text)}}
LineFrom(text, p) ==
    LET ends == {q \in p..Len(text) : text[q] = "\n"}
    IN  SubSeq(text, p, IF ends = {} THEN Len(text) ELSE MinOf(ends) - 1)
LineNo(text, i) ==
    LineFrom(text, CHOOSE p \in LineStarts(text) :
                       Cardinality({q \in LineStarts(text) : q < p}) = i - 1)

\* The fields of a line: what stands between its commas
FieldStarts(line) == {1} \cup {p + 1 : p \in CommasOf(line)}
FieldFrom(line, p) ==
    LET ends == {q \in p..Len(line) : line[q] = ","}
    IN  SubSeq(line, p, IF ends = {} THEN Len(line) ELSE MinOf(ends) - 1)
FieldsOf(line) ==
    [i \in 1..Cardinality(FieldStarts(line)) |->
        FieldFrom(line, CHOOSE p \in FieldStarts(line) :
                            Cardinality({q \in FieldStarts(line) : q < p}) = i - 1)]

\* C17: answered 200 with a CSV body, get_pre_tourney_predictions returns a
\* table whose column names are the fields of the first line and which has
\* one row for each data record, the lines after the first, holding that
\* line's fields in order.
C17_CsvTable ==
    (/\ call.op = "get_pre_tourney_predictions"
     /\ gets = 1 /\ response.ok /\ response.status_code = 200
     /\ response.body.text # <<>>)
        => LET text == response.body.text
               n == Cardinality(LineStarts(text))
               t == result.table
           IN  /\ result.kind = "table"
               /\ t.cols = FieldsOf(LineNo(text, 1))
               /\ Len(t.rows) = n - 1
               /\ \A r \in 1..(n - 1) : t.rows[r] = FieldsOf(LineNo(text, r + 1))

====
